---- MODULE Spec2Model ----
(***************************************************************************)
(* A model of frug's FrugInstance (src/src/lib.rs): the staging geometry,  *)
(* the drawable-object (batch) list, the texture table, the camera         *)
(* uniform, the surface configuration, and the winit run loop that drives  *)
(* update()/render() and the caller's update function.                     *)
(*                                                                         *)
(* f32 coordinates are modelled by small integers (the arithmetic the code *)
(* does on them, x + w and y - h, is exact there); u16 indices keep their  *)
(* width (arithmetic modulo 2^16).                                         *)
(***************************************************************************)
EXTENDS Integers, Sequences, FiniteSets, TLC

\* ------------------------------------------------------------------ bounds
\* The model stops accepting add_* calls that would exceed these.
MaxVertices == 4
MaxObjects == 2
MaxTextures == 2
\* The rectangle-only caller stops after this many rectangles.
MaxShapes == 2

\* -------------------------------------------------------- program constants
\* staging_indices is a Vec<u16>: index arithmetic is modulo 2^16.
U16Modulus == 65536

\* Vertex::default()
DefaultVertex ==
    [position |-> <<0, 0, 0>>, text_coords |-> <<0, 0>>, color |-> <<1, 1, 1>>]

\* Option<usize>: None is the empty set, Some(i) is {i}.
None == {}
Some(i) == {i}

\* The two index triangles of a rectangle.
RectIndices == <<0, 1, 3, 1, 2, 3>>

\* background_color at construction: opaque black (r, g, b, a).
InitialBackground == <<0, 0, 0, 1>>

\* ------------------------------------------------------------------ inputs
\* window.inner_size() at construction (non-zero: the surface was configured
\* with it).
InitialSize == [width |-> 2, height |-> 1]

\* Sizes the window system reports in Resized / ScaleFactorChanged.
NewSizes == {[width |-> w, height |-> h] : w \in {0, 3}, h \in {0, 3}}

\* Rectangles (x, y, w, h) the caller draws.
Rects == {[x |-> 0, y |-> 0, w |-> 1, h |-> 1]}

\* Colours [r, g, b] the caller draws rectangles with.
RectColors == {<<1, 0, 0>>}

\* texture_index values the caller passes: usize, so not checked against the
\* table's length.
TextureIndices == {0, 1}

\* (flip_x, flip_y) combinations the caller passes to add_tex_rect.
Flips == {<<FALSE, FALSE>>}

\* Rectangles the rectangle-only caller draws: the unit square at the origin
\* and one whose origin, width and height all differ.
Quads == {[x |-> 0, y |-> 0, w |-> 1, h |-> 1], [x |-> -1, y |-> 2, w |-> 2, h |-> 3]}

\* Every (flip_x, flip_y) combination.
AllFlips == BOOLEAN \X BOOLEAN

\* Meshes the caller passes to add_colored_vertices: a triangle with indices
\* into its own vertices, and a mesh whose one index is the largest u16.
Triangle ==
    [vertices |-> << [DefaultVertex EXCEPT !.position = <<0, 0, 0>>],
                     [DefaultVertex EXCEPT !.position = <<1, 0, 0>>],
                     [DefaultVertex EXCEPT !.position = <<0, 1, 0>>] >>,
     indices |-> <<0, 1, 2>>]

WildMesh ==
    [vertices |-> << DefaultVertex >>, indices |-> << U16Modulus - 1 >>]

Meshes == {Triangle, WildMesh}

\* Colours the caller passes to set_background_color.
BackgroundColors == {<<0, 0, 1, 1>>}

\* Colours the repainting caller passes to set_background_color.
Paints == {<<0, 0, 1, 1>>, <<0, 1, 0, 1>>}

\* Byte buffers the caller passes to load_texture.
Images == {"a.png", "garbage"}

\* Eye points the caller moves the camera to (looking down -z at the plane
\* z = 0, up = +y).
Eyes == {<<0, 0, 2>>, <<1, 0, 2>>}

\* Results of surface.get_current_texture().
SurfaceResults == {"Ok", "Timeout", "Outdated", "Lost", "OutOfMemory"}

\* ------------------------------------------------------------------- state
VARIABLES
    size,                \* self.size
    config,              \* self.config (width, height)
    surface,             \* what self.surface was last configured with
    background_color,    \* self.background_color
    vertex_buffer,       \* contents of self.vertex_buffer
    index_buffer,        \* contents of self.index_buffer
    staging_vertices,    \* self.staging_vertices
    staging_indices,     \* self.staging_indices
    num_indices,         \* self.num_indices
    diffuse_bind_groups, \* self.diffuse_bind_groups
    drawable_objects,    \* self.drawable_objects
    camera,              \* self.camera
    camera_uniform,      \* self.camera_uniform.view_proj
    camera_buffer,       \* contents of self.camera_buffer
    exit_requested,      \* self.exit_requested
    control_flow,        \* the event loop's ControlFlow
    pc,                  \* where the run loop is
    calls,               \* surface / queue / window calls of the last handler
    frame,               \* what the last render() did
    added,               \* add_* calls made since the last successful render
    drawn,               \* draws of the last successful render, until the next add_*
    loaded               \* successful load_texture calls and what they returned

vars ==
    << size, config, surface, background_color, vertex_buffer, index_buffer,
       staging_vertices, staging_indices, num_indices, diffuse_bind_groups,
       drawable_objects, camera, camera_uniform, camera_buffer, exit_requested,
       control_flow, pc, calls, frame, added, drawn, loaded >>

\* The fields of FrugInstance no add_* call touches.
surfaceVars == << size, config, surface >>
bufferVars == << vertex_buffer, index_buffer, num_indices >>
cameraVars == << camera, camera_uniform, camera_buffer >>
loopVars == << control_flow, calls, frame >>

\* ------------------------------------------------------------------ camera
\* Camera::build_view_projection_matrix for the orthographic camera
\* (is_perspective is private and false) looking down -z with up = +y:
\* OPENGL_TO_WGPU_MATRIX * ortho(-1, 1, -1, 1, znear, zfar) * look_at_rh.
\* znear is kept in tenths; every entry is a rational with denominator
\* scale = 10 * zfar - znear, and rows are the matrix rows times scale.
build_view_projection_matrix(cam) ==
    LET d == 10 * cam.zfar - cam.znear_tenths
    IN  [scale |-> d,
         rows |-> << <<d, 0, 0, -(d * cam.eye[1])>>,
                     <<0, d, 0, -(d * cam.eye[2])>>,
                     <<0, 0, -10, 10 * cam.eye[3] - cam.znear_tenths>>,
                     <<0, 0, 0, d>> >>]

InitialCamera ==
    [eye |-> <<0, 0, 2>>, target |-> <<0, 0, 0>>, up |-> <<0, 1, 0>>,
     aspect |-> <<InitialSize.width, InitialSize.height>>,
     fovy |-> 45, znear_tenths |-> 1, zfar |-> 100, is_perspective |-> FALSE]

\* No render() yet in this iteration of the loop.
NoFrame == [result |-> "none", passes |-> <<>>]

\* --------------------------------------------------------------- new_instance
Init ==
    /\ size = InitialSize
    /\ config = InitialSize
    /\ surface = InitialSize
    /\ background_color = InitialBackground
    /\ vertex_buffer = <<>>
    /\ index_buffer = <<>>
    /\ staging_vertices = <<>>
    /\ staging_indices = <<>>
    /\ num_indices = 0
    /\ diffuse_bind_groups = <<>>
    /\ drawable_objects = <<>>
    /\ camera = InitialCamera
    /\ camera_uniform = build_view_projection_matrix(InitialCamera)
    /\ camera_buffer = build_view_projection_matrix(InitialCamera)
    /\ exit_requested = FALSE
    /\ control_flow = "Poll"
    /\ pc = "setup"
    /\ calls = <<>>
    /\ frame = NoFrame
    /\ added = <<>>
    /\ drawn = <<>>
    /\ loaded = <<>>

\* The caller holds the instance before run() and inside its update function.
CallerHasInstance == pc \in {"setup", "tick"}

\* ------------------------------------------------------ geometry accumulator
\* `index + offset` on u16 in a build without overflow checks.
WrappingAdd(index, offset) == (index + offset) % U16Modulus

\* `self.staging_vertices.len() as u16`
StagingOffset == Len(staging_vertices) % U16Modulus

\* Positions in `indices` where `index + offset` overflows u16.
OverflowAt(indices, offset) ==
    {i \in 1 .. Len(indices) : indices[i] + offset >= U16Modulus}

\* The smallest element of a non-empty set of integers.
Least(S) == CHOOSE i \in S : \A j \in S : i <= j

\* add_staging_indexed_vertices with its two steps swapped: the vertices are
\* appended first, so the offset is the vertex count after the call.
add_staging_extend_first(vertices, indices) ==
    /\ staging_vertices' = staging_vertices \o vertices
    /\ staging_indices' = staging_indices \o
          [i \in 1 .. Len(indices) |->
              WrappingAdd(indices[i], Len(staging_vertices') % U16Modulus)]
    /\ pc' = pc

\* add_staging_indexed_vertices: every index is pushed offset by the vertex
\* count, then the vertices are appended.  Where an addition overflows, a
\* build with overflow checks panics at that index and a build without wraps.
add_staging_indexed_vertices(vertices, indices) ==
    LET offset == StagingOffset
        over == OverflowAt(indices, offset)
    IN  \/ /\ staging_indices' = staging_indices \o
                 [i \in 1 .. Len(indices) |-> WrappingAdd(indices[i], offset)]
           /\ staging_vertices' = staging_vertices \o vertices
           /\ pc' = pc
        \/ /\ over # {}
           /\ staging_indices' = staging_indices \o
                 [i \in 1 .. (Least(over) - 1) |-> indices[i] + offset]
           /\ staging_vertices' = staging_vertices
           /\ pc' = "panicked: attempt to add with overflow"

\* A DrawableObj whose low bound is taken from the staging vertices.
DrawableObjByVertexCount(count, bind_group) ==
    [indices_low_pos |-> Len(staging_vertices),
     indices_hi_pos |-> Len(staging_vertices) + count,
     bind_group_idx |-> bind_group]

\* A DrawableObj starting at the current end of the staging indices.
NewDrawableObj(count, bind_group) ==
    [indices_low_pos |-> Len(staging_indices),
     indices_hi_pos |-> Len(staging_indices) + count,
     bind_group_idx |-> bind_group]

\* What the caller did, as the `added` history records it.
AddCall(fn, vertices, indices, bind_group) ==
    [fn |-> fn, low |-> Len(staging_indices), count |-> Len(indices),
     vertices_before |-> Len(staging_vertices), bind_group |-> bind_group,
     in_range |-> \A i \in 1 .. Len(indices) : indices[i] < Len(vertices)]

add_colored_vertices(vertices, indices) ==
    /\ CallerHasInstance
    /\ drawable_objects' =
          Append(drawable_objects, NewDrawableObj(Len(indices), None))
    /\ add_staging_indexed_vertices(vertices, indices)
    /\ added' = Append(added, AddCall("add_colored_vertices", vertices, indices, None))
    /\ drawn' = << >>
    /\ UNCHANGED << surfaceVars, bufferVars, cameraVars, loopVars,
                    background_color, diffuse_bind_groups, exit_requested,
                    loaded >>

\* The four corners walked the other way round: top-left, top-right,
\* bottom-right, bottom-left.
RectPositionsClockwise(x, y, w, h) ==
    << <<x, y, 0>>, <<x + w, y, 0>>, <<x + w, y - h, 0>>, <<x, y - h, 0>> >>

\* The four corners of a rectangle, in emission order.
RectPositions(x, y, w, h) ==
    << <<x, y, 0>>, <<x, y - h, 0>>, <<x + w, y - h, 0>>, <<x + w, y, 0>> >>

\* tex_coords with the second `if` testing flip_x again.
TexCoordsFlipTogether(flip_x, flip_y) ==
    << IF flip_x THEN 1 ELSE 0, IF flip_x THEN 0 ELSE 1,
       IF flip_x THEN 1 ELSE 0, IF flip_x THEN 0 ELSE 1 >>

\* tex_coords = [left, right, top, bottom] after the flips.
TexCoords(flip_x, flip_y) ==
    << IF flip_x THEN 1 ELSE 0, IF flip_x THEN 0 ELSE 1,
       IF flip_y THEN 1 ELSE 0, IF flip_y THEN 0 ELSE 1 >>

TexRectVertices(x, y, w, h, flip_x, flip_y) ==
    LET p == RectPositions(x, y, w, h)
        t == TexCoords(flip_x, flip_y)
    IN  << [DefaultVertex EXCEPT !.position = p[1], !.text_coords = <<t[1], t[3]>>],
           [DefaultVertex EXCEPT !.position = p[2], !.text_coords = <<t[1], t[4]>>],
           [DefaultVertex EXCEPT !.position = p[3], !.text_coords = <<t[2], t[4]>>],
           [DefaultVertex EXCEPT !.position = p[4], !.text_coords = <<t[2], t[3]>>] >>

ColoredRectVertices(x, y, w, h, color) ==
    LET p == RectPositions(x, y, w, h)
    IN  [i \in 1 .. 4 |-> [DefaultVertex EXCEPT !.position = p[i], !.color = color]]

add_tex_rect(x, y, w, h, texture_index, flip_x, flip_y) ==
    /\ CallerHasInstance
    /\ drawable_objects' =
          Append(drawable_objects, NewDrawableObj(6, Some(texture_index)))
    /\ add_staging_indexed_vertices(TexRectVertices(x, y, w, h, flip_x, flip_y),
                                    RectIndices)
    /\ added' = Append(added,
          AddCall("add_tex_rect", TexRectVertices(x, y, w, h, flip_x, flip_y),
                  RectIndices, Some(texture_index)))
    /\ drawn' = << >>
    /\ UNCHANGED << surfaceVars, bufferVars, cameraVars, loopVars,
                    background_color, diffuse_bind_groups, exit_requested,
                    loaded >>

add_colored_rect(x, y, w, h, color) ==
    /\ CallerHasInstance
    /\ drawable_objects' = Append(drawable_objects, NewDrawableObj(6, None))
    /\ add_staging_indexed_vertices(ColoredRectVertices(x, y, w, h, color),
                                    RectIndices)
    /\ added' = Append(added,
          AddCall("add_colored_rect", ColoredRectVertices(x, y, w, h, color),
                  RectIndices, None))
    /\ drawn' = << >>
    /\ UNCHANGED << surfaceVars, bufferVars, cameraVars, loopVars,
                    background_color, diffuse_bind_groups, exit_requested,
                    loaded >>

\* clear() without its second line: the staging indices stay.
clear_vertices_only ==
    /\ CallerHasInstance
    /\ staging_vertices' = <<>>
    /\ UNCHANGED << surfaceVars, bufferVars, cameraVars, loopVars,
                    background_color, staging_indices, diffuse_bind_groups,
                    drawable_objects, exit_requested, pc, added, drawn, loaded >>

clear ==
    /\ CallerHasInstance
    /\ staging_vertices' = <<>>
    /\ staging_indices' = <<>>
    /\ UNCHANGED << surfaceVars, bufferVars, cameraVars, loopVars,
                    background_color, diffuse_bind_groups, drawable_objects,
                    exit_requested, pc, added, drawn, loaded >>

\* update_buffers() without its last line: num_indices keeps its value.
update_buffers_stale_count ==
    /\ CallerHasInstance
    /\ vertex_buffer' = staging_vertices
    /\ index_buffer' = staging_indices
    /\ UNCHANGED << surfaceVars, cameraVars, loopVars, background_color,
                    staging_vertices, staging_indices, diffuse_bind_groups,
                    drawable_objects, exit_requested, pc, added, drawn, loaded,
                    num_indices >>

update_buffers ==
    /\ CallerHasInstance
    /\ vertex_buffer' = staging_vertices
    /\ index_buffer' = staging_indices
    /\ num_indices' = Len(staging_indices)
    /\ UNCHANGED << surfaceVars, cameraVars, loopVars, background_color,
                    staging_vertices, staging_indices, diffuse_bind_groups,
                    drawable_objects, exit_requested, pc, added, drawn, loaded >>

set_background_color(color) ==
    /\ CallerHasInstance
    /\ background_color' = color
    /\ UNCHANGED << surfaceVars, bufferVars, cameraVars, loopVars,
                    staging_vertices, staging_indices, diffuse_bind_groups,
                    drawable_objects, exit_requested, pc, added, drawn, loaded >>

exit ==
    /\ CallerHasInstance
    /\ exit_requested' = TRUE
    /\ UNCHANGED << surfaceVars, bufferVars, cameraVars, loopVars,
                    background_color, staging_vertices, staging_indices,
                    diffuse_bind_groups, drawable_objects, pc, added, drawn, loaded >>

\* The caller assigns the public fields of `camera`.
set_camera(eye) ==
    /\ CallerHasInstance
    /\ camera' = [camera EXCEPT !.eye = eye, !.target = <<eye[1], eye[2], 0>>]
    /\ UNCHANGED << surfaceVars, bufferVars, loopVars, camera_uniform,
                    camera_buffer, background_color, staging_vertices,
                    staging_indices, diffuse_bind_groups, drawable_objects,
                    exit_requested, pc, added, drawn, loaded >>

\* ---------------------------------------------------------- texture table
\* texture::Texture::from_bytes(device, queue, bytes, label): the decoded
\* texture, or an error for bytes that are no image.
from_bytes(img_bytes) ==
    IF img_bytes = "garbage"
    THEN [ok |-> FALSE, texture |-> ""]
    ELSE [ok |-> TRUE, texture |-> img_bytes]

\* The bind group created from a decoded texture's view and sampler: a new
\* GPU object, told from the earlier ones by `id`.
DiffuseBindGroup(texture, id) ==
    [label |-> "diffuse_bind_group", resource |-> texture, id |-> id]

\* The length returned instead of the last index.
LengthReturned(groups) == Len(groups)

\* `return self.diffuse_bind_groups.len() - 1`
LastIndex(groups) == Len(groups) - 1

load_texture(img_bytes) ==
    /\ CallerHasInstance
    /\ LET decoded == from_bytes(img_bytes)
       IN  IF decoded.ok
           THEN /\ diffuse_bind_groups' =
                      Append(diffuse_bind_groups,
                             DiffuseBindGroup(decoded.texture, Len(loaded)))
                /\ loaded' = Append(loaded,
                      [image |-> img_bytes, id |-> Len(loaded),
                       index |-> LastIndex(diffuse_bind_groups')])
                /\ pc' = pc
           ELSE \* .unwrap() on the Err
                /\ pc' = "panicked: called Result::unwrap() on an Err value"
                /\ UNCHANGED << diffuse_bind_groups, loaded >>
    /\ UNCHANGED << surfaceVars, bufferVars, cameraVars, loopVars,
                    background_color, staging_vertices, staging_indices,
                    drawable_objects, exit_requested, added, drawn >>

\* ----------------------------------------------------------------- renderer
CameraBindGroup ==
    [label |-> "Camera bind group", resource |-> "camera_buffer", id |-> -1]

\* A clear that takes the colour of construction, not the field.
LoadOpClearInitial(color) == [op |-> "Clear", color |-> InitialBackground]

\* wgpu::LoadOp
LoadOpClear(color) == [op |-> "Clear", color |-> color]
LoadOpLoad == [op |-> "Load", color |-> <<>>]

\* The load op left as it is at the end of an iteration.
LoadOpKept(load_op) == load_op

\* `render_pass_op = wgpu::LoadOp::Load` at the end of each iteration.
LoadOpAfterDraw(load_op) == LoadOpLoad

\* The index inside Some(idx).
Unwrap(option) == CHOOSE i \in option : TRUE

\* `self.diffuse_bind_groups[idx]` is out of bounds.
IndexOutOfBounds(obj) ==
    /\ obj.bind_group_idx # None
    /\ Unwrap(obj.bind_group_idx) >= Len(diffuse_bind_groups)

\* The bind groups with the camera always at slot 0 and a texture behind it.
PassBindGroupsCameraFirst(obj) ==
    IF obj.bind_group_idx = None
    THEN << CameraBindGroup >>
    ELSE << CameraBindGroup, diffuse_bind_groups[Unwrap(obj.bind_group_idx) + 1] >>

\* The bind groups set in a pass, slot 0 first: the camera's slot is
\* camera_bind_group_idx, 1 after a texture bind group and 0 otherwise.
PassBindGroups(obj) ==
    IF obj.bind_group_idx = None
    THEN << CameraBindGroup >>
    ELSE << diffuse_bind_groups[Unwrap(obj.bind_group_idx) + 1], CameraBindGroup >>

\* One iteration of render's loop: one render pass with one indexed draw.
RenderPass(obj, load_op) ==
    [load |-> load_op,
     pipeline |-> IF obj.bind_group_idx = None
                  THEN "render_pipeline_colors"
                  ELSE "render_pipeline_textures",
     bind_groups |-> PassBindGroups(obj),
     vertex_buffer |-> "self.vertex_buffer",
     index_buffer |-> "self.index_buffer",
     draws |-> << [low |-> obj.indices_low_pos, high |-> obj.indices_hi_pos] >>]

\* `for drawable_obj in &self.drawable_objects`: the passes encoded, and
\* whether the loop panicked on a texture index.
RECURSIVE RenderLoop(_, _, _)
RenderLoop(objs, load_op, passes) ==
    IF objs = <<>>
    THEN [passes |-> passes, panicked |-> FALSE]
    ELSE IF IndexOutOfBounds(Head(objs))
         THEN [passes |-> passes, panicked |-> TRUE]
         ELSE RenderLoop(Tail(objs), LoadOpAfterDraw(load_op),
                         Append(passes, RenderPass(Head(objs), load_op)))

\* The drawable objects left if the list were not cleared, or only popped.
ObjectsKept(objs) == objs
ObjectsPopped(objs) == IF objs = << >> THEN << >> ELSE Tail(objs)

\* The drawable objects left after the loop: `self.drawable_objects.clear()`.
ObjectsAfterRender(objs) == <<>>

\* render() clearing the drawable objects before it acquires the frame.
render_clearing_first(acquired) ==
    IF acquired # "Ok"
    THEN [result |-> acquired, passes |-> <<>>, objects |-> <<>>]
    ELSE LET loop == RenderLoop(drawable_objects,
                                LoadOpClear(background_color), <<>>)
         IN  IF loop.panicked
             THEN [result |-> "panicked", passes |-> loop.passes,
                   objects |-> drawable_objects]
             ELSE [result |-> "Ok", passes |-> loop.passes,
                   objects |-> <<>>]

\* render(), given what get_current_texture() answers: the frame it
\* produces and the drawable objects it leaves.
render(acquired) ==
    IF acquired # "Ok"
    THEN [result |-> acquired, passes |-> <<>>, objects |-> drawable_objects]
    ELSE LET loop == RenderLoop(drawable_objects,
                                LoadOpClear(background_color), <<>>)
         IN  IF loop.panicked
             THEN [result |-> "panicked", passes |-> loop.passes,
                   objects |-> drawable_objects]
             ELSE [result |-> "Ok", passes |-> loop.passes,
                   objects |-> ObjectsAfterRender(drawable_objects)]

\* The index ranges drawn by a sequence of passes, in order.
Draws(passes) == [i \in 1 .. Len(passes) |-> passes[i].draws[1]]

\* The surface and queue calls render() makes, in order.
RenderCalls(rendered) ==
    << "surface.get_current_texture" >> \o
    [i \in 1 .. Len(rendered.passes) |-> "draw_indexed"] \o
    (IF rendered.result = "Ok" THEN << "queue.submit", "present" >> ELSE << >>)

\* The guard testing the height only.
ResizeAcceptsHeight(new_size) == new_size.height > 0

\* resize(): a size with a zero dimension is ignored.
ResizeAccepts(new_size) == new_size.width > 0 /\ new_size.height > 0

resize(new_size) ==
    IF ResizeAccepts(new_size)
    THEN /\ size' = new_size
         /\ config' = [width |-> new_size.width, height |-> new_size.height]
         /\ surface' = config'
    ELSE UNCHANGED surfaceVars

ResizeCalls(new_size) ==
    IF ResizeAccepts(new_size) THEN << "surface.configure" >> ELSE << >>

\* update() without its queue.write_buffer: the camera buffer keeps its
\* contents.
update_uniform_only ==
    /\ camera_uniform' = build_view_projection_matrix(camera)
    /\ UNCHANGED << camera, camera_buffer >>

\* update(): the view-projection matrix is recomputed and written to the
\* camera buffer.
update ==
    /\ camera_uniform' = build_view_projection_matrix(camera)
    /\ camera_buffer' = camera_uniform'
    /\ UNCHANGED camera

UpdateCalls == << "queue.write_buffer(camera_buffer)" >>

\* ----------------------------------------------------------------- run loop
\* An assignment to *control_flow.  winit's Exit is sticky: once the closure
\* has set it, later assignments leave it Exit.
SetControlFlow(current, requested) ==
    IF current = "Exit" THEN "Exit" ELSE requested

\* `*control_flow = ControlFlow::Wait` at the head of every call of the closure.
HandlerEntry == SetControlFlow(control_flow, "Wait")

\* The match without its OutOfMemory arm.
ControlFlowKept(result, current) == current

\* The match on render()'s result: the control flow it leaves.
ControlFlowAfterRender(result, current) ==
    IF result = "OutOfMemory" THEN SetControlFlow(current, "Exit") ELSE current

\* The match with only Lost in its reconfigure arm.
ReconfiguresOnLostOnly(result) == result = "Lost"

\* The match on render()'s result: whether the surface is reconfigured.
ReconfiguresAfter(result) == result \in {"Lost", "Outdated"}

\* The match on render()'s result: whether the error is printed.
LogsAfter(result) == result \in (SurfaceResults \ {"Ok", "Lost", "Outdated", "OutOfMemory"})

\* The caller passes the instance to run(), which starts the event loop.
run ==
    /\ pc = "setup"
    /\ pc' = "events"
    /\ UNCHANGED << surfaceVars, bufferVars, cameraVars, loopVars,
                    background_color, staging_vertices, staging_indices,
                    diffuse_bind_groups, drawable_objects, exit_requested,
                    added, drawn, loaded >>

\* WindowEvent::CloseRequested
CloseRequested ==
    /\ pc = "events"
    /\ control_flow' = SetControlFlow(HandlerEntry, "Exit")
    /\ calls' = << >>
    /\ UNCHANGED << surfaceVars, bufferVars, cameraVars, frame,
                    background_color, staging_vertices, staging_indices,
                    diffuse_bind_groups, drawable_objects, exit_requested,
                    pc, added, drawn, loaded >>

\* WindowEvent::Resized(physical_size)
Resized(physical_size) ==
    /\ pc = "events"
    /\ control_flow' = HandlerEntry
    /\ resize(physical_size)
    /\ calls' = ResizeCalls(physical_size)
    /\ UNCHANGED << bufferVars, cameraVars, frame,
                    background_color, staging_vertices, staging_indices,
                    diffuse_bind_groups, drawable_objects, exit_requested,
                    pc, added, drawn, loaded >>

\* WindowEvent::ScaleFactorChanged { new_inner_size, .. }
ScaleFactorChanged(new_inner_size) ==
    /\ pc = "events"
    /\ control_flow' = HandlerEntry
    /\ resize(new_inner_size)
    /\ calls' = ResizeCalls(new_inner_size)
    /\ UNCHANGED << bufferVars, cameraVars, frame,
                    background_color, staging_vertices, staging_indices,
                    diffuse_bind_groups, drawable_objects, exit_requested,
                    pc, added, drawn, loaded >>

\* Event::MainEventsCleared up to the call of the caller's update function.
MainEventsCleared ==
    /\ pc = "events"
    /\ control_flow' = HandlerEntry
    /\ calls' = << "window.request_redraw" >>
    /\ frame' = NoFrame
    /\ pc' = "tick"
    /\ UNCHANGED << surfaceVars, bufferVars, cameraVars,
                    background_color, staging_vertices, staging_indices,
                    diffuse_bind_groups, drawable_objects, exit_requested,
                    added, drawn, loaded >>

\* The update function returns and exit_requested is not looked at.
UpdateFunctionReturnsUnchecked ==
    /\ pc = "tick"
    /\ pc' = "redraw"
    /\ UNCHANGED << surfaceVars, bufferVars, cameraVars, loopVars,
                    background_color, staging_vertices, staging_indices,
                    diffuse_bind_groups, drawable_objects, exit_requested,
                    added, drawn, loaded >>

\* The update function returns: `if self.exit_requested { Exit }`.
UpdateFunctionReturns ==
    /\ pc = "tick"
    /\ control_flow' = IF exit_requested
                       THEN SetControlFlow(control_flow, "Exit")
                       ELSE control_flow
    /\ pc' = "redraw"
    /\ UNCHANGED << surfaceVars, bufferVars, cameraVars, calls, frame,
                    background_color, staging_vertices, staging_indices,
                    diffuse_bind_groups, drawable_objects, exit_requested,
                    added, drawn, loaded >>

\* Event::RedrawRequested: update(), render(), and the match on its result.
RedrawRequested(acquired) ==
    /\ pc = "redraw"
    /\ update
    /\ LET rendered == render(acquired)
       IN  /\ frame' = [result |-> rendered.result, passes |-> rendered.passes]
           /\ drawable_objects' = rendered.objects
           /\ added' = IF rendered.result = "Ok" THEN << >> ELSE added
           /\ drawn' = IF rendered.result = "Ok"
                        THEN Draws(rendered.passes) ELSE drawn
           /\ IF rendered.result = "panicked"
              THEN /\ pc' = "panicked: index out of bounds"
                   /\ control_flow' = HandlerEntry
                   /\ calls' = UpdateCalls \o RenderCalls(rendered)
                   /\ UNCHANGED surfaceVars
              ELSE /\ pc' = "redrawn"
                   /\ control_flow' =
                         ControlFlowAfterRender(rendered.result, HandlerEntry)
                   /\ IF ReconfiguresAfter(rendered.result)
                      THEN /\ resize(size)
                           /\ calls' = UpdateCalls \o RenderCalls(rendered)
                                          \o ResizeCalls(size)
                      ELSE /\ UNCHANGED surfaceVars
                           /\ calls' = UpdateCalls \o RenderCalls(rendered) \o
                                 (IF LogsAfter(rendered.result)
                                  THEN << "eprintln" >> ELSE << >>)
    /\ UNCHANGED << bufferVars, background_color, staging_vertices,
                    staging_indices, diffuse_bind_groups, exit_requested,
                    loaded >>

\* The iteration's last event (RedrawEventsCleared) falls in `_ => ()`; the
\* event loop then ends if the control flow is Exit and waits otherwise.
IterationEnds ==
    /\ pc = "redrawn"
    /\ control_flow' = HandlerEntry
    /\ pc' = IF control_flow' = "Exit" THEN "done" ELSE "events"
    /\ calls' = << >>
    /\ UNCHANGED << surfaceVars, bufferVars, cameraVars, frame,
                    background_color, staging_vertices, staging_indices,
                    diffuse_bind_groups, drawable_objects, exit_requested,
                    added, drawn, loaded >>

\* With the control flow at Exit the event loop may end before it has
\* delivered the rest of the iteration's events.
LoopExitsEarly ==
    /\ pc \in {"events", "redraw"}
    /\ control_flow = "Exit"
    /\ pc' = "done"
    /\ UNCHANGED << surfaceVars, bufferVars, cameraVars, loopVars,
                    background_color, staging_vertices, staging_indices,
                    diffuse_bind_groups, drawable_objects, exit_requested,
                    added, drawn, loaded >>

\* ------------------------------------------------------------ specification
\* Room left under the bounds for one more shape of `count` vertices.
RoomFor(count) ==
    /\ Len(staging_vertices) + count <= MaxVertices
    /\ Len(drawable_objects) < MaxObjects

\* The caller's drawing calls, before run() and inside its update function.
CallerDraws ==
    \/ \E r \in Rects, c \in RectColors :
          RoomFor(4) /\ add_colored_rect(r.x, r.y, r.w, r.h, c)
    \/ \E r \in Rects, t \in TextureIndices, f \in Flips :
          RoomFor(4) /\ add_tex_rect(r.x, r.y, r.w, r.h, t, f[1], f[2])
    \/ \E m \in Meshes :
          RoomFor(Len(m.vertices)) /\ add_colored_vertices(m.vertices, m.indices)
    \/ clear
    \/ update_buffers
    \/ \E c \in BackgroundColors : set_background_color(c)
    \/ \E img \in Images :
          Len(diffuse_bind_groups) < MaxTextures /\ load_texture(img)

\* The steps of the event loop that make up a frame.
FrameLoop ==
    \/ run
    \/ MainEventsCleared
    \/ UpdateFunctionReturns
    \/ \E acquired \in SurfaceResults : RedrawRequested(acquired)
    \/ IterationEnds

\* The engine under a caller that draws: geometry, textures, background and
\* the frames rendered from them.
Next == CallerDraws \/ FrameLoop

Spec == Init /\ [][Next]_vars

\* The run loop under window events and a caller that moves the camera, asks
\* to exit and draws one rectangle at a time.
LoopNext ==
    \/ \E r \in Rects, c \in RectColors :
          RoomFor(4) /\ add_colored_rect(r.x, r.y, r.w, r.h, c)
    \/ clear
    \/ update_buffers
    \/ exit
    \/ \E e \in Eyes : set_camera(e)
    \/ CloseRequested
    \/ \E s \in NewSizes : Resized(s)
    \/ \E s \in NewSizes : ScaleFactorChanged(s)
    \/ FrameLoop
    \/ LoopExitsEarly

\* The event loop keeps delivering events and the update function returns.
LoopProgress == FrameLoop \/ LoopExitsEarly

LoopSpec == Init /\ [][LoopNext]_vars /\ WF_vars(LoopProgress)

\* Room left for one more rectangle of the rectangle-only caller.
ShapesLeft == Len(drawable_objects) < MaxShapes

\* A caller that, from the new instance, only draws rectangles and uploads.
RectNext ==
    \/ \E q \in Quads, c \in RectColors :
          ShapesLeft /\ add_colored_rect(q.x, q.y, q.w, q.h, c)
    \/ \E q \in Quads, t \in TextureIndices, f \in AllFlips :
          ShapesLeft /\ add_tex_rect(q.x, q.y, q.w, q.h, t, f[1], f[2])
    \/ update_buffers

RectSpec == Init /\ [][RectNext]_vars

\* A caller that repaints the background between frames of rectangles.
PaintNext ==
    \/ \E r \in Rects, c \in RectColors :
          RoomFor(4) /\ add_colored_rect(r.x, r.y, r.w, r.h, c)
    \/ clear
    \/ \E c \in Paints : set_background_color(c)
    \/ FrameLoop

PaintSpec == Init /\ [][PaintNext]_vars

\* ------------------------------------------------------------------ claims
Has(seq, x) == \E i \in 1 .. Len(seq) : seq[i] = x
Count(seq, x) == Cardinality({i \in 1 .. Len(seq) : seq[i] = x})
Panicked == pc \notin {"setup", "events", "tick", "redraw", "redrawn", "done"}

\* A step in which render() acquired the frame and returned Ok.
RenderSucceeds == pc = "redraw" /\ frame'.result = "Ok"

\* The last call recorded in a non-empty `added`.
LastAdded(history) == history[Len(history)]

\* An add_* call returns in this step.
AddReturns == Len(added') = Len(added) + 1 /\ pc' = pc

\* The indices the step appended to the staging indices.
Appended ==
    { staging_indices'[i] : i \in (Len(staging_indices) + 1) .. Len(staging_indices') }

\* C1 as stated: every index stored in the staging index sequence is
\* strictly less than the staging vertex count (after the call that stored
\* it, and so whenever update_buffers runs), for any add_* calls.
C1_Original ==
    ~Panicked =>
        \A i \in 1 .. Len(staging_indices) :
            staging_indices[i] < Len(staging_vertices)

\* C1 as amended: every index stored by add_colored_rect, by add_tex_rect, or
\* by an add_colored_vertices call whose indices are each less than the
\* number of vertices passed in that call, is strictly less than the staging
\* vertex count after that call; and it stays so until update_buffers,
\* because a stored index is never changed and the vertex count never drops
\* unless the staging indices are emptied with it.
C1_Amended ==
    [][ /\ (AddReturns /\ LastAdded(added').in_range) =>
              /\ Appended # {}
              /\ \A index \in Appended : index < Len(staging_vertices')
        /\ \/ /\ Len(staging_vertices') >= Len(staging_vertices)
              /\ Len(staging_indices') >= Len(staging_indices)
              /\ SubSeq(staging_indices', 1, Len(staging_indices))
                    = staging_indices
           \/ staging_indices' = << >> /\ staging_vertices' = << >>
      ]_vars

\* A mesh with in-range indices was added behind an earlier shape.
C1_Witness ==
    /\ ~Panicked
    /\ added # << >>
    /\ LastAdded(added).in_range
    /\ LastAdded(added).fn = "add_colored_vertices"
    /\ LastAdded(added).vertices_before > 0
    /\ Len(staging_indices) = LastAdded(added).low + LastAdded(added).count

\* C2: a successful render with N >= 1 recorded batches issues exactly N
\* indexed draws, one per batch in the order of the add_* calls; the first
\* pass clears to the background colour and the other N - 1 passes load.
C2_DrawsInCallOrder ==
    [][ (RenderSucceeds /\ drawable_objects # << >>) =>
            /\ Len(frame'.passes) = Len(drawable_objects)
            /\ Len(added) = Len(drawable_objects)
            /\ Count(calls', "draw_indexed") = Len(drawable_objects)
            /\ \A i \in 1 .. Len(frame'.passes) :
                  /\ frame'.passes[i].draws =
                        << [low |-> added[i].low,
                            high |-> added[i].low + added[i].count] >>
                  /\ frame'.passes[i].load =
                        IF i = 1 THEN LoadOpClear(background_color)
                        ELSE LoadOpLoad ]_vars

\* A frame of two passes was rendered over a background that was set.
C2_Witness ==
    /\ pc = "redrawn"
    /\ frame.result = "Ok"
    /\ Len(frame.passes) >= 2
    /\ background_color # InitialBackground

\* C3 as stated: a render with an empty batch list performs exactly one pass,
\* which clears to the background colour and draws nothing.
C3_ClearOnlyPass ==
    [][ (RenderSucceeds /\ drawable_objects = << >>) =>
            /\ Len(frame'.passes) = 1
            /\ frame'.passes[1].load = LoadOpClear(background_color)
            /\ frame'.passes[1].draws = << >> ]_vars

\* Two index ranges [low, high) share an index.
Overlap(a, b) ==
    /\ a.indices_low_pos < b.indices_hi_pos
    /\ b.indices_low_pos < a.indices_hi_pos
    /\ a.indices_low_pos < a.indices_hi_pos
    /\ b.indices_low_pos < b.indices_hi_pos

\* C4 as stated: the batch list is in add_* call order, no two of its ranges
\* overlap, and index_low never decreases along the list, whatever add_*,
\* clear and update_buffers calls were made since the last render.
C4_DisjointNonDecreasing ==
    ~Panicked =>
        /\ Len(drawable_objects) = Len(added)
        /\ \A i \in 1 .. Len(drawable_objects) :
              drawable_objects[i].indices_low_pos = added[i].low
        /\ \A i, j \in 1 .. Len(drawable_objects) :
              i < j =>
                 /\ ~Overlap(drawable_objects[i], drawable_objects[j])
                 /\ drawable_objects[i].indices_low_pos
                       <= drawable_objects[j].indices_low_pos

\* C5: a successful render leaves the batch list empty and the staging
\* sequences, the uploaded buffers, the index count and the texture table as
\* they were.
C5_RenderConsumesBatchesOnly ==
    [][ RenderSucceeds =>
            /\ drawable_objects' = << >>
            /\ UNCHANGED << staging_vertices, staging_indices, vertex_buffer,
                            index_buffer, num_indices, diffuse_bind_groups >>
      ]_vars

\* A frame with draws was rendered while staging, buffers and textures held
\* something.
C5_Witness ==
    /\ pc = "redrawn"
    /\ frame.result = "Ok"
    /\ frame.passes # << >>
    /\ staging_vertices # << >>
    /\ num_indices > 0
    /\ diffuse_bind_groups # << >>

\* C6 as stated: a successful render that follows a successful render with
\* no add_* call in between draws what that render drew.
C6_Original ==
    [][ (RenderSucceeds /\ added = << >>) =>
            Draws(frame'.passes) = drawn ]_vars

\* C6 as amended: a successful render that follows a successful render with
\* no add_* call in between issues no draw (the batch list was consumed),
\* while the staging sequences and the uploaded buffers still hold the
\* geometry.
C6_Amended ==
    [][ (RenderSucceeds /\ added = << >>) =>
            /\ frame'.passes = << >>
            /\ ~Has(calls', "draw_indexed")
            /\ UNCHANGED << staging_vertices, staging_indices, vertex_buffer,
                            index_buffer, num_indices >> ]_vars

\* A frame without draws was rendered although geometry is staged and
\* uploaded: its batches went with an earlier successful render.
C6_Witness ==
    /\ pc = "redrawn"
    /\ frame.result = "Ok"
    /\ frame.passes = << >>
    /\ added = << >>
    /\ num_indices > 0
    /\ staging_indices # << >>

\* C7: after SurfaceLost or SurfaceOutdated the surface is reconfigured with
\* the last known, non-zero size, nothing is drawn and the loop keeps
\* running; after any other error but OutOfMemory the error is printed, the
\* surface is not reconfigured and the loop keeps running.
C7_RecoverableErrors ==
    [][ /\ (pc = "redraw" /\ frame'.result \in {"Lost", "Outdated"}) =>
              /\ Count(calls', "surface.configure") = 1
              /\ size.width > 0 /\ size.height > 0
              /\ surface' = [width |-> size.width, height |-> size.height]
              /\ size' = size
              /\ frame'.passes = << >>
              /\ ~Has(calls', "present")
              /\ control_flow' = SetControlFlow(control_flow, "Wait")
              /\ pc' = "redrawn"
        /\ (pc = "redraw"
              /\ frame'.result \in (SurfaceResults \ {"Ok", "Lost", "Outdated", "OutOfMemory"})) =>
              /\ Has(calls', "eprintln")
              /\ ~Has(calls', "surface.configure")
              /\ UNCHANGED << size, config, surface >>
              /\ frame'.passes = << >>
              /\ control_flow' = SetControlFlow(control_flow, "Wait")
              /\ pc' = "redrawn"
        /\ (pc = "redrawn" /\ control_flow # "Exit") => pc' = "events"
      ]_vars

\* The surface was lost after the window had been resized, and the loop goes on.
C7_Witness ==
    /\ pc = "events"
    /\ frame.result = "Lost"
    /\ size # InitialSize
    /\ control_flow = "Wait"

\* C8: after OutOfMemory the control flow is Exit when the handler returns,
\* it stays Exit, and the loop ends instead of waiting for another frame.
C8_OutOfMemoryTerminates ==
    /\ [][ (pc = "redraw" /\ frame'.result = "OutOfMemory") =>
               control_flow' = "Exit" ]_vars
    /\ [][ control_flow = "Exit" => control_flow' = "Exit" ]_vars
    /\ [][ (pc = "redrawn" /\ frame.result = "OutOfMemory") => pc' = "done" ]_vars
    /\ ((pc = "redrawn" /\ frame.result = "OutOfMemory") ~> (pc = "done"))

\* The loop has ended after an OutOfMemory frame.
C8_Witness ==
    /\ pc = "done"
    /\ frame.result = "OutOfMemory"
    /\ ~exit_requested

\* C9 as stated: a load_texture call whose bytes do not decode returns to the
\* caller as a failed call; the process does not crash.
C9_DecodeFailureReturns ==
    pc # "panicked: called Result::unwrap() on an Err value"

\* The texture table holds what the successful load_texture calls made, in
\* call order: the k-th call (from 0) returned k, and that index designates
\* the bind group that call created.
C10_Table ==
    /\ Len(diffuse_bind_groups) = Len(loaded)
    /\ \A k \in 1 .. Len(loaded) :
          /\ loaded[k].index = k - 1
          /\ diffuse_bind_groups[loaded[k].index + 1] =
                DiffuseBindGroup(loaded[k].image, loaded[k].id)
          /\ \A j \in 1 .. Len(loaded) : loaded[j].id = loaded[k].id => j = k

\* C10: the k-th successful load_texture returns k; the texture table only
\* grows, only load_texture changes it, and a returned index designates the
\* same entry whatever add_*, clear, update_buffers or render calls follow.
C10_StableTextureIndices ==
    /\ []C10_Table
    /\ [][ /\ Len(diffuse_bind_groups') >= Len(diffuse_bind_groups)
           /\ SubSeq(diffuse_bind_groups', 1, Len(diffuse_bind_groups))
                 = diffuse_bind_groups
           /\ diffuse_bind_groups' # diffuse_bind_groups =>
                 /\ CallerHasInstance
                 /\ Len(diffuse_bind_groups') = Len(diffuse_bind_groups) + 1
                 /\ Len(loaded') = Len(loaded) + 1
                 /\ LastAdded(loaded').index = Len(diffuse_bind_groups)
         ]_vars

\* Two textures were loaded and a frame drew with the second one.
C10_Witness ==
    /\ Len(loaded) = 2
    /\ pc = "redrawn"
    /\ frame.result = "Ok"
    /\ \E i \in 1 .. Len(frame.passes) :
          frame.passes[i].bind_groups[1] = diffuse_bind_groups[loaded[2].index + 1]

\* C11: from empty staging and an empty batch list, k consecutive rectangle
\* calls leave 4k staged vertices, 6k staged indices and k batches, the i-th
\* (from 0) with range [6i, 6i + 6); an update_buffers that follows records
\* the index count 6k and uploads 4k vertices and 6k indices.
C11_RectangleCounts ==
    /\ [](LET k == Len(added)
          IN  /\ Len(staging_vertices) = 4 * k
              /\ Len(staging_indices) = 6 * k
              /\ Len(drawable_objects) = k
              /\ \A i \in 1 .. k :
                    /\ added[i].fn \in {"add_colored_rect", "add_tex_rect"}
                    /\ drawable_objects[i].indices_low_pos = 6 * (i - 1)
                    /\ drawable_objects[i].indices_hi_pos = 6 * (i - 1) + 6)
    /\ [][ update_buffers =>
              /\ num_indices' = 6 * Len(added)
              /\ Len(vertex_buffer') = 4 * Len(added)
              /\ Len(index_buffer') = 6 * Len(added) ]_vars

\* Two rectangles, one of each kind, were added and uploaded: 8 vertices,
\* 12 indices, ranges [0,6) and [6,12).
C11_Witness ==
    /\ Len(added) = 2
    /\ added[1].fn # added[2].fn
    /\ Len(vertex_buffer) = 8
    /\ num_indices = 12
    /\ drawable_objects[1].indices_low_pos = 0
    /\ drawable_objects[1].indices_hi_pos = 6
    /\ drawable_objects[2].indices_low_pos = 6
    /\ drawable_objects[2].indices_hi_pos = 12

\* A step that takes entries out of a staging sequence.
StagingShrinks ==
    \/ Len(staging_vertices') < Len(staging_vertices)
    \/ Len(staging_indices') < Len(staging_indices)

\* C12: clear() leaves both staging sequences empty whatever they held, and
\* changes nothing else: the batch list, the texture table, the background
\* colour, the uploaded buffers and the recorded index count are as before;
\* the buffers and the count change only in an update_buffers call.
C12_ClearEmptiesStagingOnly ==
    /\ [][ (clear \/ StagingShrinks) =>
              /\ CallerHasInstance
              /\ staging_vertices' = << >>
              /\ staging_indices' = << >>
              /\ UNCHANGED << vertex_buffer, index_buffer, num_indices,
                              drawable_objects, diffuse_bind_groups,
                              background_color, surfaceVars, cameraVars,
                              exit_requested, loaded, pc >> ]_vars
    /\ [][ bufferVars' # bufferVars =>
              /\ CallerHasInstance
              /\ vertex_buffer' = staging_vertices
              /\ index_buffer' = staging_indices
              /\ num_indices' = Len(staging_indices) ]_vars

\* The staging sequences are empty while the buffers, the index count, the
\* batch list, the texture table and a background colour that was set are
\* all still there: clear() ran after an upload.
C12_Witness ==
    /\ staging_vertices = << >>
    /\ staging_indices = << >>
    /\ vertex_buffer # << >>
    /\ index_buffer # << >>
    /\ num_indices > 0
    /\ drawable_objects # << >>
    /\ diffuse_bind_groups # << >>
    /\ background_color # InitialBackground

\* The uploaded buffers and the index count are those of the staging
\* sequences.
UploadedIsStaged ==
    /\ vertex_buffer = staging_vertices
    /\ index_buffer = staging_indices
    /\ num_indices = Len(staging_indices)

\* C13: update_buffers() makes the uploaded vertex and index buffers copies
\* of the staging sequences and the index count the staging index length,
\* and leaves the staging sequences and the batch list as they were; a
\* second call right after changes nothing at all.
C13_UploadCopiesStaging ==
    /\ [][ (update_buffers \/ bufferVars' # bufferVars) =>
              /\ UploadedIsStaged'
              /\ UNCHANGED << staging_vertices, staging_indices,
                              drawable_objects >> ]_vars
    /\ [][ (CallerHasInstance /\ UploadedIsStaged /\ bufferVars' # bufferVars)
              => FALSE ]_vars
    /\ [][ (update_buffers /\ UploadedIsStaged) => UNCHANGED vars ]_vars

\* Geometry is uploaded, with batches recorded, and then more was staged
\* than the buffers hold.
C13_Witness ==
    /\ vertex_buffer # << >>
    /\ num_indices = Len(index_buffer)
    /\ drawable_objects # << >>
    /\ Len(staging_indices) > num_indices
    /\ SubSeq(staging_indices, 1, num_indices) = index_buffer

\* C14: a resize request with a zero width or a zero height changes neither
\* the stored size nor the surface configuration and does not reconfigure the
\* surface; so the stored size, which starts non-zero, is non-zero in both
\* dimensions after any resize events, and every change of it reconfigures.
C14_ZeroResizeIgnored ==
    /\ [][ \A s \in NewSizes :
              ((Resized(s) \/ ScaleFactorChanged(s))
                   /\ (s.width = 0 \/ s.height = 0)) =>
                 /\ UNCHANGED << size, config, surface >>
                 /\ ~Has(calls', "surface.configure") ]_vars
    /\ [][ surfaceVars' # surfaceVars =>
              /\ size'.width > 0 /\ size'.height > 0
              /\ config' = size' /\ surface' = size'
              /\ Has(calls', "surface.configure") ]_vars
    /\ [](size.width > 0 /\ size.height > 0 /\ config = size /\ surface = size)

\* Before the first tick the window was resized, and the last window event
\* handled since then configured nothing and did not ask to exit: a resize
\* request with a zero dimension.
C14_Witness ==
    /\ pc = "events"
    /\ frame = NoFrame
    /\ size # InitialSize
    /\ calls = << >>
    /\ control_flow = "Wait"

\* C15: exit_requested starts false, only exit() sets it, nothing resets it,
\* and it is looked at once per tick, when the caller's update function has
\* returned: if it is set then, the control flow is Exit from that moment of
\* the same tick, and the loop ends.  Nothing else but a close request or an
\* out-of-memory frame sets the control flow to Exit.
C15_CooperativeExit ==
    /\ exit_requested = FALSE
    /\ [][ exit_requested' # exit_requested =>
              /\ CallerHasInstance
              /\ exit_requested' = TRUE
              /\ UNCHANGED << control_flow, pc, calls, frame >> ]_vars
    /\ [][ exit_requested => exit_requested' ]_vars
    /\ [][ (pc = "tick" /\ pc' # "tick") =>
              /\ pc' = "redraw"
              /\ exit_requested => control_flow' = "Exit"
              /\ ~exit_requested => control_flow' = control_flow ]_vars
    /\ [][ (control_flow' = "Exit" /\ control_flow # "Exit") =>
              \/ pc = "tick" /\ pc' = "redraw" /\ exit_requested
              \/ pc = "events" /\ pc' = "events"
              \/ pc = "redraw" /\ frame'.result = "OutOfMemory" ]_vars
    /\ ((pc = "redraw" /\ exit_requested) ~> (pc = "done"))
    /\ ((pc = "tick" /\ exit_requested) ~> (pc = "done"))

\* exit() was called and the loop has ended, its last frame rendered without
\* an error.
C15_Witness ==
    /\ pc = "done"
    /\ exit_requested
    /\ frame.result = "Ok"

\* C16 as stated: add_colored_vertices(vertices, indices) appends the
\* caller's vertices unchanged and in order, appends each caller index plus
\* the staging vertex count before the call, and records exactly one new
\* batch without bind group whose range is [L, L + len(indices)), L being the
\* staging index length before the call; earlier staging entries and earlier
\* batches stay as they were.
C16_MeshAppended ==
    [][ \A m \in Meshes :
          add_colored_vertices(m.vertices, m.indices) =>
             /\ pc' = pc
             /\ staging_vertices' = staging_vertices \o m.vertices
             /\ staging_indices' = staging_indices \o
                   [i \in 1 .. Len(m.indices) |->
                       m.indices[i] + Len(staging_vertices)]
             /\ drawable_objects' = drawable_objects \o
                   << [indices_low_pos |-> Len(staging_indices),
                       indices_hi_pos |-> Len(staging_indices) + Len(m.indices),
                       bind_group_idx |-> None] >> ]_vars

\* The step appended the rectangle q: 4 vertices at top-left, bottom-left,
\* bottom-right, top-right, the 6 indices [0,1,3,1,2,3] raised by the vertex
\* count before the call, and one batch with the given bind-group reference.
RectAppended(q, bind_group) ==
    LET n == Len(staging_vertices)
        low == Len(staging_indices)
    IN  /\ Len(staging_vertices') = n + 4
        /\ SubSeq(staging_vertices', 1, n) = staging_vertices
        /\ staging_vertices'[n + 1].position = <<q.x, q.y, 0>>
        /\ staging_vertices'[n + 2].position = <<q.x, q.y - q.h, 0>>
        /\ staging_vertices'[n + 3].position = <<q.x + q.w, q.y - q.h, 0>>
        /\ staging_vertices'[n + 4].position = <<q.x + q.w, q.y, 0>>
        /\ staging_indices' = staging_indices \o
              <<n, n + 1, n + 3, n + 1, n + 2, n + 3>>
        /\ drawable_objects' = drawable_objects \o
              << [indices_low_pos |-> low, indices_hi_pos |-> low + 6,
                  bind_group_idx |-> bind_group] >>

\* C17: add_colored_rect and add_tex_rect each append exactly 4 vertices in
\* the order top-left (x, y), bottom-left (x, y-h), bottom-right (x+w, y-h),
\* top-right (x+w, y), exactly the 6 indices [0,1,3,1,2,3] each increased by
\* the prior vertex count, and exactly one batch: without bind-group
\* reference for the coloured rectangle (whose vertices carry the colour),
\* with bind-group reference t for the textured one.
C17_RectEmission ==
    [][ /\ \A q \in Quads, c \in RectColors :
              add_colored_rect(q.x, q.y, q.w, q.h, c) =>
                 /\ RectAppended(q, None)
                 /\ \A i \in 1 .. 4 :
                       staging_vertices'[Len(staging_vertices) + i].color = c
        /\ \A q \in Quads, t \in TextureIndices, f \in AllFlips :
              add_tex_rect(q.x, q.y, q.w, q.h, t, f[1], f[2]) =>
                 RectAppended(q, Some(t)) ]_vars

\* A textured rectangle with texture index 1 was added behind a coloured
\* one: its indices start at 4 and its corners are those of the second quad.
C17_Witness ==
    /\ Len(added) = 2
    /\ added[1].fn = "add_colored_rect"
    /\ added[2].fn = "add_tex_rect"
    /\ added[2].bind_group = Some(1)
    /\ SubSeq(staging_indices, 7, 12) = <<4, 5, 7, 5, 6, 7>>
    /\ staging_vertices[5].position = <<-1, 2, 0>>
    /\ staging_vertices[7].position = <<1, -1, 0>>

\* The U (k = 1) or V (k = 2) texture coordinates of the four vertices a step
\* appended, in emission order.
NewTexCoords(k) ==
    [i \in 1 .. 4 |-> staging_vertices'[Len(staging_vertices) + i].text_coords[k]]

\* C18: an unflipped add_tex_rect gives U = 0,0,1,1 and V = 0,1,1,0 over the
\* four vertices; flip_x swaps the U values of vertices 0,1 with those of
\* vertices 2,3 and leaves V alone; flip_y swaps the V values of the top
\* vertices 0,3 with those of the bottom vertices 1,2 and leaves U alone; the
\* flags act independently, and positions, indices and the batch are the
\* same for all four combinations.
C18_FlipsSwapTexCoords ==
    [][ \A q \in Quads, t \in TextureIndices, f \in AllFlips :
          add_tex_rect(q.x, q.y, q.w, q.h, t, f[1], f[2]) =>
             /\ NewTexCoords(1) = IF f[1] THEN <<1, 1, 0, 0>> ELSE <<0, 0, 1, 1>>
             /\ NewTexCoords(2) = IF f[2] THEN <<1, 0, 0, 1>> ELSE <<0, 1, 1, 0>>
             /\ RectAppended(q, Some(t)) ]_vars

\* A rectangle flipped in x only is followed by one flipped in y only.
C18_Witness ==
    /\ Len(added) = 2
    /\ added[1].fn = "add_tex_rect"
    /\ added[2].fn = "add_tex_rect"
    /\ [i \in 1 .. 4 |-> staging_vertices[i].text_coords] =
          << <<1, 0>>, <<1, 1>>, <<0, 1>>, <<0, 0>> >>
    /\ [i \in 1 .. 4 |-> staging_vertices[4 + i].text_coords] =
          << <<0, 1>>, <<0, 0>>, <<1, 0>>, <<1, 1>> >>

\* C19: in every pass render encodes, a batch with bind-group reference t
\* selects the textured pipeline and binds the bind group of the texture
\* loaded t-th (from 0) at slot 0 and the camera bind group at slot 1; a
\* batch without reference selects the coloured pipeline and binds the
\* camera bind group at slot 0 and nothing else.  Every pass binds the
\* camera, and all passes of a frame bind the same vertex and index buffers.
C19_PipelineAndBindGroups ==
    [][ pc = "redraw" =>
          /\ Len(frame'.passes) <= Len(drawable_objects)
          /\ \A i \in 1 .. Len(frame'.passes) :
                LET pass == frame'.passes[i]
                    obj == drawable_objects[i]
                IN  /\ obj.bind_group_idx = None =>
                          /\ pass.pipeline = "render_pipeline_colors"
                          /\ pass.bind_groups = << CameraBindGroup >>
                    /\ \A t \in obj.bind_group_idx :
                          /\ pass.pipeline = "render_pipeline_textures"
                          /\ t < Len(loaded)
                          /\ pass.bind_groups =
                                << DiffuseBindGroup(loaded[t + 1].image,
                                                    loaded[t + 1].id),
                                   CameraBindGroup >>
                    /\ Has(pass.bind_groups, CameraBindGroup)
                    /\ pass.vertex_buffer = frame'.passes[1].vertex_buffer
                    /\ pass.index_buffer = frame'.passes[1].index_buffer
                    /\ pass.vertex_buffer = "self.vertex_buffer"
                    /\ pass.index_buffer = "self.index_buffer" ]_vars

\* A frame drew a coloured batch and then a batch textured with the second
\* of two textures.
C19_Witness ==
    /\ pc = "redrawn"
    /\ frame.result = "Ok"
    /\ Len(frame.passes) = 2
    /\ frame.passes[1].pipeline = "render_pipeline_colors"
    /\ frame.passes[2].pipeline = "render_pipeline_textures"
    /\ Len(loaded) = 2
    /\ frame.passes[2].bind_groups[1] = diffuse_bind_groups[2]

\* The redraw handler runs in this step.
RedrawHandled == pc = "redraw" /\ pc' \notin {"redraw", "done"}

\* C20: in every redraw event the view-projection matrix is recomputed from
\* the camera fields as they are and written to the camera buffer exactly
\* once, before the frame is acquired and so before any draw, whether or not
\* the camera changed since the last frame and whatever render then returns;
\* nothing else writes the camera buffer.
C20_CameraUploadedOncePerFrame ==
    /\ [][ RedrawHandled =>
              /\ camera_uniform' = build_view_projection_matrix(camera)
              /\ camera_buffer' = camera_uniform'
              /\ camera' = camera
              /\ Count(calls', "queue.write_buffer(camera_buffer)") = 1
              /\ calls'[1] = "queue.write_buffer(camera_buffer)"
              /\ calls'[2] = "surface.get_current_texture"
              /\ Count(calls', "surface.get_current_texture") = 1
              /\ frame'.result \in SurfaceResults ]_vars
    /\ [][ (camera_buffer' # camera_buffer \/ camera_uniform' # camera_uniform)
              => RedrawHandled ]_vars

\* The caller moved the camera and the next frame, whose acquisition timed
\* out, still uploaded the matrix of the moved camera.
C20_Witness ==
    /\ pc = "redrawn"
    /\ frame.result = "Timeout"
    /\ camera.eye # InitialCamera.eye
    /\ camera_buffer = build_view_projection_matrix(camera)
    /\ camera_buffer # build_view_projection_matrix(InitialCamera)
    /\ drawable_objects # << >>

\* C21: the background colour is opaque black until set_background_color is
\* called and then the value passed last; set_background_color changes
\* nothing else; a frame's first pass clears to the colour as it is when
\* render starts and no later pass of the frame uses it.
C21_ClearColour ==
    /\ background_color = <<0, 0, 0, 1>>
    /\ [][ background_color' # background_color =>
              /\ CallerHasInstance
              /\ \E c \in Paints : set_background_color(c) ]_vars
    /\ [][ \A c \in Paints :
              set_background_color(c) =>
                 /\ background_color' = c
                 /\ UNCHANGED << surfaceVars, bufferVars, cameraVars,
                                 staging_vertices, staging_indices,
                                 diffuse_bind_groups, drawable_objects,
                                 exit_requested, control_flow, pc >> ]_vars
    /\ [][ pc = "redraw" =>
              /\ background_color' = background_color
              /\ \A i \in 1 .. Len(frame'.passes) :
                    frame'.passes[i].load =
                       IF i = 1
                       THEN [op |-> "Clear", color |-> background_color]
                       ELSE [op |-> "Load", color |-> << >>] ]_vars

\* A frame of two passes was cleared to the second of the colours the
\* caller sets.
C21_Witness ==
    /\ pc = "redrawn"
    /\ frame.result = "Ok"
    /\ Len(frame.passes) = 2
    /\ frame.passes[1].load.color = <<0, 1, 0, 1>>
    /\ background_color = <<0, 1, 0, 1>>

\* C22 as stated: whenever render issues the indexed draw of a batch, the
\* batch's range [index_low, index_high) lies within the uploaded index
\* buffer: index_high is at most the index count the last update_buffers
\* recorded, for every sequence of add_*, clear, update_buffers and render.
C22_DrawsWithinUploadedIndices ==
    [][ pc = "redraw" =>
          \A i \in 1 .. Len(frame'.passes) :
             /\ frame'.passes[i].draws[1].high <= num_indices
             /\ frame'.passes[i].draws[1].high <= Len(index_buffer) ]_vars

\* C23 as stated: whenever render consumes a textured batch, its bind-group
\* reference is less than the number of textures loaded, so render never
\* indexes the texture table out of bounds, whatever texture_index the
\* caller passed to add_tex_rect.
C23_TextureIndexValid ==
    [][ (pc = "redraw" /\ frame'.result \in {"Ok", "panicked"}) =>
          /\ frame'.result # "panicked"
          /\ pc' # "panicked: index out of bounds"
          /\ \A i \in 1 .. Len(drawable_objects) :
                \A t \in drawable_objects[i].bind_group_idx :
                   t < Len(diffuse_bind_groups) ]_vars

\* The step stored each of the caller's indices raised by the true staging
\* vertex count, none of the sums leaving 16 bits, with an offset that is
\* the true vertex count.
StoredWithoutWrap(indices) ==
    /\ pc' = pc
    /\ Len(staging_vertices) % 65536 = Len(staging_vertices)
    /\ \A i \in 1 .. Len(indices) : indices[i] + Len(staging_vertices) < 65536
    /\ staging_indices' = staging_indices \o
          [i \in 1 .. Len(indices) |-> indices[i] + Len(staging_vertices)]

\* C24 as stated: the 16-bit index arithmetic never wraps or truncates: in
\* every add_* call the offset is the true staging vertex count and each
\* stored index is the caller's index plus that count, without overflow.
C24_NoWrap ==
    [][ /\ \A m \in Meshes :
              add_colored_vertices(m.vertices, m.indices) =>
                 StoredWithoutWrap(m.indices)
        /\ \A r \in Rects, c \in RectColors :
              add_colored_rect(r.x, r.y, r.w, r.h, c) =>
                 StoredWithoutWrap(<<0, 1, 3, 1, 2, 3>>)
        /\ \A r \in Rects, t \in TextureIndices, f \in Flips :
              add_tex_rect(r.x, r.y, r.w, r.h, t, f[1], f[2]) =>
                 StoredWithoutWrap(<<0, 1, 3, 1, 2, 3>>) ]_vars

\* The index range of a drawable object, as a draw records it.
Range(obj) == [low |-> obj.indices_low_pos, high |-> obj.indices_hi_pos]

\* C25: a render that fails at frame acquisition leaves the batch list, the
\* staging sequences, the uploaded buffers, the index count, the texture
\* table and the background colour as they were and issues no draw, submit
\* or present; its batches stay queued.  A batch leaves the list only in a
\* successful render, which draws every queued batch once and empties the
\* list, so no recorded batch is drawn in two successful frames.
C25_FailedRenderKeepsState ==
    /\ [][ (pc = "redraw" /\ frame'.result \in (SurfaceResults \ {"Ok"})) =>
              /\ UNCHANGED << drawable_objects, staging_vertices,
                              staging_indices, vertex_buffer, index_buffer,
                              num_indices, diffuse_bind_groups,
                              background_color >>
              /\ frame'.passes = << >>
              /\ ~Has(calls', "draw_indexed")
              /\ ~Has(calls', "queue.submit")
              /\ ~Has(calls', "present") ]_vars
    /\ [][ drawable_objects' # drawable_objects =>
              \/ /\ CallerHasInstance
                 /\ Len(drawable_objects') = Len(drawable_objects) + 1
                 /\ SubSeq(drawable_objects', 1, Len(drawable_objects))
                       = drawable_objects
              \/ /\ RenderSucceeds
                 /\ drawable_objects' = << >>
                 /\ Draws(frame'.passes) =
                       [i \in 1 .. Len(drawable_objects) |->
                           Range(drawable_objects[i])] ]_vars

\* A frame timed out at acquisition with batches queued, geometry uploaded,
\* a texture loaded and the background set: all of it is still there.
C25_Witness ==
    /\ pc = "redrawn"
    /\ frame.result = "Timeout"
    /\ drawable_objects # << >>
    /\ num_indices > 0
    /\ staging_indices # << >>
    /\ diffuse_bind_groups # << >>
    /\ background_color # InitialBackground

====
